---------------------------- MODULE Spec2Model ----------------------------
(***************************************************************************)
(* Load-linked / store-conditional and atomic-memory-operation translation *)
(* (gen_ll, gen_sc, gen_am and the TRANS table of trans_svinval.c.inc),    *)
(* modelled together with the execution of the IR each translation emits.  *)
(*                                                                         *)
(* A register holds a 64-bit word and a memory cell a 32-bit word.  Every   *)
(* translated instruction makes one                                        *)
(* access to shared memory, so one instruction is one step of its          *)
(* execution context; everything else it touches (registers, lladdr,       *)
(* llval, IR temporaries) is private to the context.                       *)
(***************************************************************************)
EXTENDS Integers, Sequences, FiniteSets, TLC

(***************************************************************************)
(* Bounds of the model.                                                    *)
(***************************************************************************)
\* execution contexts (vCPUs) 1..NCtx
NCtx == 2
\* instructions executed by all contexts together in one behaviour
MaxSteps == 3
\* general registers 0..MaxReg of each context (register 0 reads as zero)
MaxReg == 5

(***************************************************************************)
(* Machine words.  A word is a sequence of 16-bit limbs, least significant *)
(* limb first: four limbs for a 64-bit register, two for a 32-bit cell.    *)
(***************************************************************************)
\* TARGET_LONG_BITS of the _tl operations
XLEN == 64
\* width of an MO_TESL access
WLEN == 32

Limb == 0..65535

\* the word of n limbs holding the natural number v (v < 2^31)
NatWord(v, n) == [i \in 1..n |-> CASE i = 1 -> v % 65536
                                   [] i = 2 -> v \div 65536
                                   [] OTHER -> 0]

\* bitwise complement
NotWord(a) == [i \in 1..Len(a) |-> 65535 - a[i]]

\* the 64-bit two's complement word of a small integer
W(v) == IF v >= 0 THEN NatWord(v, XLEN \div 16)
        ELSE NotWord(NatWord(-v - 1, XLEN \div 16))

\* the 32-bit cell holding a small natural number
W32(v) == NatWord(v, WLEN \div 16)

Zero == W(0)
One == W(1)

RECURSIVE AddCarry(_, _, _, _)
AddCarry(a, b, i, carry) ==
    IF i > Len(a) THEN <<>>
    ELSE LET s == a[i] + b[i] + carry
         IN  <<s % 65536>> \o AddCarry(a, b, i + 1, s \div 65536)

\* addition modulo 2^(16 * Len(a))
Add(a, b) == AddCarry(a, b, 1, 0)

RECURSIVE AndLimb(_, _)
AndLimb(x, y) ==
    IF x = 0 \/ y = 0 THEN 0
    ELSE (x % 2) * (y % 2) + 2 * AndLimb(x \div 2, y \div 2)

RECURSIVE XorLimb(_, _)
XorLimb(x, y) ==
    IF x = 0 THEN y
    ELSE IF y = 0 THEN x
    ELSE ((x + y) % 2) + 2 * XorLimb(x \div 2, y \div 2)

And(a, b) == [i \in 1..Len(a) |-> AndLimb(a[i], b[i])]
Xor(a, b) == [i \in 1..Len(a) |-> XorLimb(a[i], b[i])]
Or(a, b) == [i \in 1..Len(a) |-> a[i] + b[i] - AndLimb(a[i], b[i])]

\* unsigned a < b, decided at the most significant limb where they differ
RECURSIVE ULessFrom(_, _, _)
ULessFrom(a, b, i) ==
    IF i = 0 THEN FALSE
    ELSE IF a[i] # b[i] THEN a[i] < b[i]
    ELSE ULessFrom(a, b, i - 1)

ULess(a, b) == ULessFrom(a, b, Len(a))

\* the sign bit of a word
Negative(a) == a[Len(a)] >= 32768

\* signed (two's complement) a < b
SLess(a, b) == IF Negative(a) # Negative(b) THEN Negative(a) ELSE ULess(a, b)

Lo32(w) == SubSeq(w, 1, WLEN \div 16)
Hi32(w) == SubSeq(w, WLEN \div 16 + 1, XLEN \div 16)
ZeroExt32(w) == [i \in 1..(XLEN \div 16) |-> IF i <= WLEN \div 16 THEN w[i] ELSE 0]
SignExt32(c) ==
    c \o [i \in 1..((XLEN - WLEN) \div 16) |-> IF Negative(c) THEN 65535 ELSE 0]

(***************************************************************************)
(* Memory operand descriptors (MemOp) and the shared memory.               *)
(***************************************************************************)
\* target-endian signed 32-bit access, and target-endian 64-bit access
MO_TESL == "MO_TESL"
MO_TEUQ == "MO_TEUQ"
MemOps == {MO_TESL, MO_TEUQ}

\* 32-bit cells of the modelled memory, at byte addresses 0, 4, 8, ...
NCells == 4
Cells == {4 * i : i \in 0..(NCells - 1)}

\* the cells an access of width mop at cell address n covers (little endian)
CellsOf(n, mop) == IF mop = MO_TESL THEN {n} ELSE {n, n + 4}

\* an access the memory system performs: mapped, and aligned to its size
Accessible(addr, mop) ==
    /\ \A i \in 2..Len(addr) : addr[i] = 0
    /\ CellsOf(addr[1], mop) \subseteq Cells
    /\ mop = MO_TEUQ => addr[1] % 8 = 0

\* the cell address of an accessible address
CellAddr(addr) == addr[1]

\* the value a load of width mop yields: MO_TESL sign-extends the 32-bit cell
Load(m, addr, mop) ==
    LET n == CellAddr(addr)
    IN  IF mop = MO_TESL THEN SignExt32(m[n]) ELSE m[n] \o m[n + 4]

\* the memory after a store of the low bits of v at width mop
Store(m, addr, mop, v) ==
    LET n == CellAddr(addr)
    IN  IF mop = MO_TESL THEN [m EXCEPT ![n] = Lo32(v)]
        ELSE [m EXCEPT ![n] = Lo32(v), ![n + 4] = Hi32(v)]

(***************************************************************************)
(* State.                                                                  *)
(***************************************************************************)
VARIABLES
    gpr,      \* gpr[c][r]: general register r of context c (gpr[c][0] = 0)
    va32,     \* va32[c]: context c translates in 32-bit address mode
              \* (DisasContext.va32)
    lladdr,   \* lladdr[c]: CPULoongArchState.lladdr of context c
    llval,    \* llval[c]: CPULoongArchState.llval of context c
    mem,      \* mem[n]: the 32-bit cell at byte address n, shared
    last,     \* the instruction translated and executed by the last step
    resv,     \* history: per context, the reservation as the LL/SC state
              \* machine sees it, and whether its cells were written since
    steps,    \* history: steps[c] is the number of instructions context c
              \* has executed
    yielded,  \* history: yielded[c] is the number of store-conditionals of
              \* context c that set rd to 1
    pc        \* pc[c]: where context c is in its guest program ("free" when
              \* it executes whatever it fetches)

vars == <<gpr, va32, lladdr, llval, mem, last, resv, steps, yielded, pc>>

Ctx == 1..NCtx
Regs == 0..MaxReg

(***************************************************************************)
(* Register-file accessors used by the translators (EXT_NONE).             *)
(***************************************************************************)
\* gpr_src: register 0 is the constant zero
gpr_src(g, r) == IF r = 0 THEN Zero ELSE g[r]

\* gpr_dst: the register itself, or a fresh temporary (slot 0) for register 0
gpr_dst(r) == r

\* gen_set_gpr: a write to register 0 is discarded
gen_set_gpr(g, r, t) == IF r = 0 THEN [g EXCEPT ![0] = Zero] ELSE [g EXCEPT ![r] = t]

\* make_address_i: base plus displacement, modulo 2^64; in 32-bit address
\* mode (va) the high 32 bits of the sum are cleared
make_address_i(va, base, imm) ==
    LET sum == Add(base, W(imm))
    IN  IF va THEN ZeroExt32(sum) ELSE sum

(***************************************************************************)
(* IR operations the translators emit, by what their execution does.       *)
(***************************************************************************)
\* an addition that takes the displacement as an unsigned 12-bit field
addi_unsigned_imm(src, imm) == Add(src, W(imm % 4096))

\* tcg_gen_addi_tl: 64-bit addition of a constant, wrapping
tcg_gen_addi_tl(src, imm) == Add(src, W(imm))

\* tcg_gen_brcond_tl(TCG_COND_EQ, ...): whether the branch is taken
tcg_gen_brcond_tl_EQ(x, y) == x = y

\* a setcond that reports success whatever it compares
setcond_always(x, y) == One

\* tcg_gen_setcond_tl(TCG_COND_EQ, ...): 1 when equal, else 0
tcg_gen_setcond_tl_EQ(x, y) == IF x = y THEN One ELSE Zero

\* tcg_gen_atomic_cmpxchg_tl: in one step, read the value at addr at width
\* mop and write newv there if the value read equals cmpv; yields the value
\* read
tcg_gen_atomic_cmpxchg_tl(m, addr, cmpv, newv, mop) ==
    LET old == Load(m, addr, mop)
    IN  IF old = cmpv
        THEN [old |-> old, mem |-> Store(m, addr, mop, newv), stored |-> TRUE]
        ELSE [old |-> old, mem |-> m, stored |-> FALSE]

\* the value an atomic read-modify-write leaves in memory, at the width of
\* its operands
AtomicNew(func, old, val) ==
    CASE func = "tcg_gen_atomic_xchg_tl" -> val
      [] func = "tcg_gen_atomic_fetch_add_tl" -> Add(old, val)
      [] func = "tcg_gen_atomic_fetch_and_tl" -> And(old, val)
      [] func = "tcg_gen_atomic_fetch_or_tl" -> Or(old, val)
      [] func = "tcg_gen_atomic_fetch_xor_tl" -> Xor(old, val)
      [] func = "tcg_gen_atomic_fetch_smax_tl" -> IF SLess(old, val) THEN val ELSE old
      [] func = "tcg_gen_atomic_fetch_smin_tl" -> IF SLess(val, old) THEN val ELSE old
      [] func = "tcg_gen_atomic_fetch_umax_tl" -> IF ULess(old, val) THEN val ELSE old
      [] func = "tcg_gen_atomic_fetch_umin_tl" -> IF ULess(val, old) THEN val ELSE old

\* tcg_gen_atomic_xchg_tl / tcg_gen_atomic_fetch_<op>_tl: in one step, read
\* the value at addr, write f(value, val) computed at width mop, and yield
\* the value read (extended as a load of that width extends it)
tcg_gen_atomic_op(func, m, addr, val, mop) ==
    LET n == CellAddr(addr)
        raw == IF mop = MO_TESL THEN m[n] ELSE m[n] \o m[n + 4]
        opd == IF mop = MO_TESL THEN Lo32(val) ELSE val
        new == AtomicNew(func, raw, opd)
    IN  [old |-> Load(m, addr, mop),
         mem |-> IF mop = MO_TESL THEN [m EXCEPT ![n] = new]
                 ELSE [m EXCEPT ![n] = Lo32(new), ![n + 4] = Hi32(new)]]

(***************************************************************************)
(* The translators.  Each yields the translation result (ret), the IR it   *)
(* emitted (ir) and the state the emitted IR leaves when it is executed.   *)
(***************************************************************************)
\* gen_ll recomputing the address for lladdr after it has written rd
gen_ll_late_lladdr(va, g, m, a, mop) ==
    LET src1 == gpr_src(g, a.rj)
        t0 == make_address_i(va, src1, a.imm)
        t1 == Load(m, t0, mop)
        g1 == gen_set_gpr(g, a.rd, t1)
    IN  [ret |-> TRUE,
         ir |-> <<"qemu_ld_i64", "set_gpr", "st_tl", "st_tl">>,
         addr |-> t0,
         lladdr |-> make_address_i(va, gpr_src(g1, a.rj), a.imm),
         llval |-> t1,
         dest |-> t1,
         g |-> g1]

\* gen_ll storing the address into llval as well
gen_ll_swapped(va, g, m, a, mop) ==
    LET src1 == gpr_src(g, a.rj)
        t0 == make_address_i(va, src1, a.imm)
        t1 == Load(m, t0, mop)
    IN  [ret |-> TRUE,
         ir |-> <<"qemu_ld_i64", "st_tl", "st_tl", "set_gpr">>,
         addr |-> t0,
         lladdr |-> t0,
         llval |-> t0,
         dest |-> t1,
         g |-> gen_set_gpr(g, a.rd, t1)]

\* gen_ll: g, m are the context's registers and the memory before
gen_ll(va, g, m, a, mop) ==
    LET src1 == gpr_src(g, a.rj)
        t0 == make_address_i(va, src1, a.imm)
        t1 == Load(m, t0, mop)
    IN  [ret |-> TRUE,
         ir |-> <<"qemu_ld_i64", "st_tl", "st_tl", "set_gpr">>,
         addr |-> t0,
         lladdr |-> t0,
         llval |-> t1,
         dest |-> t1,
         g |-> gen_set_gpr(g, a.rd, t1)]

\* gen_sc dropping the displacement
sc_addr_nodisp(g, a) == gpr_src(g, a.rj)

\* the address gen_sc compares with the reservation
sc_addr(g, a) == tcg_gen_addi_tl(gpr_src(g, a.rj), a.imm)

\* gen_sc reporting a reservation mismatch as a translation failure
gen_sc_mismatch_fails(g, la, lv, m, a, mop) ==
    LET dest == gpr_dst(a.rd)
        t0 == sc_addr(g, a)
    IN  IF ~ tcg_gen_brcond_tl_EQ(t0, la)
        THEN LET g1 == [g EXCEPT ![dest] = Zero]
             IN  [ret |-> FALSE,
                  ir |-> <<"addi_tl", "brcond_tl", "movi_tl", "br", "set_label", "mov_tl",
                           "atomic_cmpxchg_tl", "setcond_tl", "set_label", "set_gpr">>,
                  addr |-> t0, matched |-> FALSE, stored |-> FALSE,
                  mem |-> m, dest |-> g1[dest],
                  g |-> gen_set_gpr(g1, a.rd, g1[dest])]
        ELSE LET val == gpr_src(g, a.rd)
                 cx == tcg_gen_atomic_cmpxchg_tl(m, la, lv, val, mop)
                 g1 == [g EXCEPT ![dest] = tcg_gen_setcond_tl_EQ(cx.old, lv)]
             IN  [ret |-> TRUE,
                  ir |-> <<"addi_tl", "brcond_tl", "movi_tl", "br", "set_label", "mov_tl",
                           "atomic_cmpxchg_tl", "setcond_tl", "set_label", "set_gpr">>,
                  addr |-> t0, matched |-> TRUE, stored |-> cx.stored,
                  mem |-> cx.mem, dest |-> g1[dest],
                  g |-> gen_set_gpr(g1, a.rd, g1[dest])]

\* gen_sc zeroing the destination before it reads the value to store
gen_sc_dest_first(g, la, lv, m, a, mop) ==
    LET dest == gpr_dst(a.rd)
        t0 == sc_addr(g, a)
        g0 == [g EXCEPT ![dest] = Zero]
    IN  IF ~ tcg_gen_brcond_tl_EQ(t0, la)
        THEN [ret |-> TRUE,
              ir |-> <<"addi_tl", "movi_tl", "brcond_tl", "br", "set_label", "mov_tl",
                       "atomic_cmpxchg_tl", "setcond_tl", "set_label", "set_gpr">>,
              addr |-> t0, matched |-> FALSE, stored |-> FALSE,
              mem |-> m, dest |-> g0[dest],
              g |-> gen_set_gpr(g0, a.rd, g0[dest])]
        ELSE LET val == gpr_src(g0, a.rd)
                 cx == tcg_gen_atomic_cmpxchg_tl(m, la, lv, val, mop)
                 g1 == [g0 EXCEPT ![dest] = tcg_gen_setcond_tl_EQ(cx.old, lv)]
             IN  [ret |-> TRUE,
                  ir |-> <<"addi_tl", "movi_tl", "brcond_tl", "br", "set_label", "mov_tl",
                           "atomic_cmpxchg_tl", "setcond_tl", "set_label", "set_gpr">>,
                  addr |-> t0, matched |-> TRUE, stored |-> cx.stored,
                  mem |-> cx.mem, dest |-> g1[dest],
                  g |-> gen_set_gpr(g1, a.rd, g1[dest])]

\* gen_sc: la, lv are the context's lladdr and llval
gen_sc(g, la, lv, m, a, mop) ==
    LET dest == gpr_dst(a.rd)
        t0 == sc_addr(g, a)
    IN  IF ~ tcg_gen_brcond_tl_EQ(t0, la)
        THEN LET g1 == [g EXCEPT ![dest] = Zero]
             IN  [ret |-> TRUE,
                  ir |-> <<"addi_tl", "brcond_tl", "movi_tl", "br", "set_label", "mov_tl",
                           "atomic_cmpxchg_tl", "setcond_tl", "set_label", "set_gpr">>,
                  addr |-> t0, matched |-> FALSE, stored |-> FALSE,
                  mem |-> m, dest |-> g1[dest],
                  g |-> gen_set_gpr(g1, a.rd, g1[dest])]
        ELSE LET val == gpr_src(g, a.rd)
                 cx == tcg_gen_atomic_cmpxchg_tl(m, la, lv, val, mop)
                 g1 == [g EXCEPT ![dest] = tcg_gen_setcond_tl_EQ(cx.old, lv)]
             IN  [ret |-> TRUE,
                  ir |-> <<"addi_tl", "brcond_tl", "movi_tl", "br", "set_label", "mov_tl",
                           "atomic_cmpxchg_tl", "setcond_tl", "set_label", "set_gpr">>,
                  addr |-> t0, matched |-> TRUE, stored |-> cx.stored,
                  mem |-> cx.mem, dest |-> g1[dest],
                  g |-> gen_set_gpr(g1, a.rd, g1[dest])]

\* the overlap test without the rk comparison
am_overlap_rj_only(a) == a.rd # 0 /\ a.rj = a.rd

\* the hazard check of gen_am: the destination overlaps a source register
am_overlap(a) == a.rd # 0 /\ (a.rj = a.rd \/ a.rk = a.rd)

\* gen_am taking its operand from rj
gen_am_operand_rj(va, g, m, a, func, mop) ==
    IF a.rd # 0 /\ (a.rj = a.rd \/ a.rk = a.rd)
    THEN [ret |-> FALSE, ir |-> <<>>, addr |-> Zero, mem |-> m, dest |-> Zero, g |-> g]
    ELSE LET dest == gpr_dst(a.rd)
             addr == make_address_i(va, gpr_src(g, a.rj), 0)
             val == gpr_src(g, a.rj)
             rmw == tcg_gen_atomic_op(func, m, addr, val, mop)
             g1 == [g EXCEPT ![dest] = rmw.old]
         IN  [ret |-> TRUE, ir |-> <<func, "set_gpr">>, addr |-> addr,
              mem |-> rmw.mem, dest |-> g1[dest],
              g |-> gen_set_gpr(g1, a.rd, g1[dest])]

\* gen_am checking the overlap only after it has emitted the operation
gen_am_late_check(va, g, m, a, func, mop) ==
    LET dest == gpr_dst(a.rd)
        addr == make_address_i(va, gpr_src(g, a.rj), 0)
        val == gpr_src(g, a.rk)
        rmw == tcg_gen_atomic_op(func, m, addr, val, mop)
        g1 == [g EXCEPT ![dest] = rmw.old]
    IN  [ret |-> ~ am_overlap(a), ir |-> <<func, "set_gpr">>, addr |-> addr,
         mem |-> rmw.mem, dest |-> g1[dest],
         g |-> gen_set_gpr(g1, a.rd, g1[dest])]

\* gen_am emitting no operation when the destination is register 0
gen_am_r0_nop(va, g, m, a, func, mop) ==
    IF am_overlap(a)
    THEN [ret |-> FALSE, ir |-> <<>>, addr |-> Zero, mem |-> m, dest |-> Zero, g |-> g]
    ELSE LET dest == gpr_dst(a.rd)
             addr == make_address_i(va, gpr_src(g, a.rj), 0)
             val == gpr_src(g, a.rk)
             rmw == tcg_gen_atomic_op(func, m, addr, val, mop)
             g1 == [g EXCEPT ![dest] = rmw.old]
         IN  IF a.rd = 0
             THEN [ret |-> TRUE, ir |-> <<>>, addr |-> addr, mem |-> m,
                   dest |-> Zero, g |-> g]
             ELSE [ret |-> TRUE, ir |-> <<func, "set_gpr">>, addr |-> addr,
                   mem |-> rmw.mem, dest |-> g1[dest],
                   g |-> gen_set_gpr(g1, a.rd, g1[dest])]

\* gen_am
gen_am(va, g, m, a, func, mop) ==
    IF am_overlap(a)
    THEN [ret |-> FALSE, ir |-> <<>>, addr |-> Zero, mem |-> m, dest |-> Zero, g |-> g]
    ELSE LET dest == gpr_dst(a.rd)
             addr == make_address_i(va, gpr_src(g, a.rj), 0)
             val == gpr_src(g, a.rk)
             rmw == tcg_gen_atomic_op(func, m, addr, val, mop)
             g1 == [g EXCEPT ![dest] = rmw.old]
         IN  [ret |-> TRUE, ir |-> <<func, "set_gpr">>, addr |-> addr,
              mem |-> rmw.mem, dest |-> g1[dest],
              g |-> gen_set_gpr(g1, a.rd, g1[dest])]

(***************************************************************************)
(* The TRANS table: each instruction's translator, emitter and MemOp.      *)
(***************************************************************************)
TransTable ==
    ("ll_w" :> [gen |-> "gen_ll", func |-> "none", mop |-> MO_TESL]) @@
    ("sc_w" :> [gen |-> "gen_sc", func |-> "none", mop |-> MO_TESL]) @@
    ("ll_d" :> [gen |-> "gen_ll", func |-> "none", mop |-> MO_TEUQ]) @@
    ("sc_d" :> [gen |-> "gen_sc", func |-> "none", mop |-> MO_TEUQ]) @@
    ("amswap_w" :> [gen |-> "gen_am", func |-> "tcg_gen_atomic_xchg_tl", mop |-> MO_TESL]) @@
    ("amswap_d" :> [gen |-> "gen_am", func |-> "tcg_gen_atomic_xchg_tl", mop |-> MO_TEUQ]) @@
    ("amadd_w" :> [gen |-> "gen_am", func |-> "tcg_gen_atomic_fetch_add_tl", mop |-> MO_TESL]) @@
    ("amadd_d" :> [gen |-> "gen_am", func |-> "tcg_gen_atomic_fetch_add_tl", mop |-> MO_TEUQ]) @@
    ("amand_w" :> [gen |-> "gen_am", func |-> "tcg_gen_atomic_fetch_and_tl", mop |-> MO_TESL]) @@
    ("amand_d" :> [gen |-> "gen_am", func |-> "tcg_gen_atomic_fetch_and_tl", mop |-> MO_TEUQ]) @@
    ("amor_w" :> [gen |-> "gen_am", func |-> "tcg_gen_atomic_fetch_or_tl", mop |-> MO_TESL]) @@
    ("amor_d" :> [gen |-> "gen_am", func |-> "tcg_gen_atomic_fetch_or_tl", mop |-> MO_TEUQ]) @@
    ("amxor_w" :> [gen |-> "gen_am", func |-> "tcg_gen_atomic_fetch_xor_tl", mop |-> MO_TESL]) @@
    ("amxor_d" :> [gen |-> "gen_am", func |-> "tcg_gen_atomic_fetch_xor_tl", mop |-> MO_TEUQ]) @@
    ("ammax_w" :> [gen |-> "gen_am", func |-> "tcg_gen_atomic_fetch_smax_tl", mop |-> MO_TESL]) @@
    ("ammax_d" :> [gen |-> "gen_am", func |-> "tcg_gen_atomic_fetch_smax_tl", mop |-> MO_TEUQ]) @@
    ("ammin_w" :> [gen |-> "gen_am", func |-> "tcg_gen_atomic_fetch_smin_tl", mop |-> MO_TESL]) @@
    ("ammin_d" :> [gen |-> "gen_am", func |-> "tcg_gen_atomic_fetch_smin_tl", mop |-> MO_TEUQ]) @@
    ("ammax_wu" :> [gen |-> "gen_am", func |-> "tcg_gen_atomic_fetch_umax_tl", mop |-> MO_TESL]) @@
    ("ammax_du" :> [gen |-> "gen_am", func |-> "tcg_gen_atomic_fetch_umax_tl", mop |-> MO_TEUQ]) @@
    ("ammin_wu" :> [gen |-> "gen_am", func |-> "tcg_gen_atomic_fetch_umin_tl", mop |-> MO_TESL]) @@
    ("ammin_du" :> [gen |-> "gen_am", func |-> "tcg_gen_atomic_fetch_umin_tl", mop |-> MO_TEUQ]) @@
    ("amswap_db_w" :> [gen |-> "gen_am", func |-> "tcg_gen_atomic_xchg_tl", mop |-> MO_TESL]) @@
    ("amswap_db_d" :> [gen |-> "gen_am", func |-> "tcg_gen_atomic_xchg_tl", mop |-> MO_TEUQ]) @@
    ("amadd_db_w" :> [gen |-> "gen_am", func |-> "tcg_gen_atomic_fetch_add_tl", mop |-> MO_TESL]) @@
    ("amadd_db_d" :> [gen |-> "gen_am", func |-> "tcg_gen_atomic_fetch_add_tl", mop |-> MO_TEUQ]) @@
    ("amand_db_w" :> [gen |-> "gen_am", func |-> "tcg_gen_atomic_fetch_and_tl", mop |-> MO_TESL]) @@
    ("amand_db_d" :> [gen |-> "gen_am", func |-> "tcg_gen_atomic_fetch_and_tl", mop |-> MO_TEUQ]) @@
    ("amor_db_w" :> [gen |-> "gen_am", func |-> "tcg_gen_atomic_fetch_or_tl", mop |-> MO_TESL]) @@
    ("amor_db_d" :> [gen |-> "gen_am", func |-> "tcg_gen_atomic_fetch_or_tl", mop |-> MO_TEUQ]) @@
    ("amxor_db_w" :> [gen |-> "gen_am", func |-> "tcg_gen_atomic_fetch_xor_tl", mop |-> MO_TESL]) @@
    ("amxor_db_d" :> [gen |-> "gen_am", func |-> "tcg_gen_atomic_fetch_xor_tl", mop |-> MO_TEUQ]) @@
    ("ammax_db_w" :> [gen |-> "gen_am", func |-> "tcg_gen_atomic_fetch_smax_tl", mop |-> MO_TESL]) @@
    ("ammax_db_d" :> [gen |-> "gen_am", func |-> "tcg_gen_atomic_fetch_smax_tl", mop |-> MO_TEUQ]) @@
    ("ammin_db_w" :> [gen |-> "gen_am", func |-> "tcg_gen_atomic_fetch_smin_tl", mop |-> MO_TESL]) @@
    ("ammin_db_d" :> [gen |-> "gen_am", func |-> "tcg_gen_atomic_fetch_smin_tl", mop |-> MO_TEUQ]) @@
    ("ammax_db_wu" :> [gen |-> "gen_am", func |-> "tcg_gen_atomic_fetch_umax_tl", mop |-> MO_TESL]) @@
    ("ammax_db_du" :> [gen |-> "gen_am", func |-> "tcg_gen_atomic_fetch_umax_tl", mop |-> MO_TEUQ]) @@
    ("ammin_db_wu" :> [gen |-> "gen_am", func |-> "tcg_gen_atomic_fetch_umin_tl", mop |-> MO_TESL]) @@
    ("ammin_db_du" :> [gen |-> "gen_am", func |-> "tcg_gen_atomic_fetch_umin_tl", mop |-> MO_TEUQ])

\* the table entry of an instruction
\* the table with ammax.w bound to the signed-min emitter
TRANS_max_as_min(insn) ==
    IF insn = "ammax_w"
    THEN [TransTable[insn] EXCEPT !.func = "tcg_gen_atomic_fetch_smin_tl"]
    ELSE TransTable[insn]

\* the table with amadd.w bound to the 64-bit MemOp
TRANS_w_as_d(insn) ==
    IF insn = "amadd_w"
    THEN [TransTable[insn] EXCEPT !.mop = MO_TEUQ]
    ELSE TransTable[insn]

\* the table with amadd_db.d bound to the exchange emitter
TRANS_db_add_as_swap(insn) ==
    IF insn = "amadd_db_d"
    THEN [TransTable[insn] EXCEPT !.func = "tcg_gen_atomic_xchg_tl"]
    ELSE TransTable[insn]

TRANS(insn) == TransTable[insn]

Insns == DOMAIN TransTable
LLInsns == {i \in Insns : TransTable[i].gen = "gen_ll"}
SCInsns == {i \in Insns : TransTable[i].gen = "gen_sc"}
AMInsns == {i \in Insns : TransTable[i].gen = "gen_am"}

(***************************************************************************)
(* One step: a context translates one instruction and executes its IR.     *)
(* An access that is unmapped or misaligned raises an exception instead;   *)
(* that path belongs to the memory system and is no step here.             *)
(***************************************************************************)
NoResv == [valid |-> FALSE, dirty |-> FALSE, cells |-> {}]

\* history: every reservation covering a written cell has been written to
Touch(rs, wr) ==
    [c \in Ctx |-> IF rs[c].cells \cap wr # {} THEN [rs[c] EXCEPT !.dirty = TRUE]
                   ELSE rs[c]]

Record(c, insn, a, r, matched, stored) ==
    [insn |-> insn, ctx |-> c, rd |-> a.rd, rj |-> a.rj, rk |-> a.rk, imm |-> a.imm,
     ret |-> r.ret, ir |-> r.ir, addr |-> r.addr, dest |-> r.dest,
     matched |-> matched, stored |-> stored]

\* ll.w / ll.d with lladdr and llval shared by all contexts
trans_ll_shared(c, insn, a) ==
    /\ insn \in LLInsns
    /\ LET mop == TRANS(insn).mop
           r == gen_ll(va32[c], gpr[c], mem, a, mop)
       IN  /\ Accessible(make_address_i(va32[c], gpr_src(gpr[c], a.rj), a.imm), mop)
           /\ gpr' = [gpr EXCEPT ![c] = r.g]
           /\ lladdr' = [x \in Ctx |-> r.lladdr]
           /\ llval' = [x \in Ctx |-> r.llval]
           /\ mem' = mem
           /\ UNCHANGED <<va32, yielded>>
           /\ last' = Record(c, insn, a, r, FALSE, FALSE)
           /\ resv' = [resv EXCEPT ![c] = [valid |-> TRUE, dirty |-> FALSE,
                                           cells |-> CellsOf(CellAddr(r.addr), mop)]]
           /\ steps' = [steps EXCEPT ![c] = @ + 1]

\* ll.w / ll.d
trans_ll(c, insn, a) ==
    /\ insn \in LLInsns
    /\ LET mop == TRANS(insn).mop
           r == gen_ll(va32[c], gpr[c], mem, a, mop)
       IN  /\ Accessible(make_address_i(va32[c], gpr_src(gpr[c], a.rj), a.imm), mop)
           /\ gpr' = [gpr EXCEPT ![c] = r.g]
           /\ lladdr' = [lladdr EXCEPT ![c] = r.lladdr]
           /\ llval' = [llval EXCEPT ![c] = r.llval]
           /\ mem' = mem
           /\ UNCHANGED <<va32, yielded>>
           /\ last' = Record(c, insn, a, r, FALSE, FALSE)
           /\ resv' = [resv EXCEPT ![c] = [valid |-> TRUE, dirty |-> FALSE,
                                           cells |-> CellsOf(CellAddr(r.addr), mop)]]
           /\ steps' = [steps EXCEPT ![c] = @ + 1]

\* sc.w / sc.d
trans_sc(c, insn, a) ==
    /\ insn \in SCInsns
    /\ LET mop == TRANS(insn).mop
           r == gen_sc(gpr[c], lladdr[c], llval[c], mem, a, mop)
       IN  /\ tcg_gen_brcond_tl_EQ(sc_addr(gpr[c], a), lladdr[c])
                  => Accessible(lladdr[c], mop)
           /\ gpr' = [gpr EXCEPT ![c] = r.g]
           /\ mem' = r.mem
           /\ UNCHANGED <<va32, lladdr, llval>>
           /\ yielded' = [yielded EXCEPT ![c] = IF r.dest = One THEN @ + 1 ELSE @]
           /\ last' = Record(c, insn, a, r, r.matched, r.stored)
           /\ resv' = LET rs == [resv EXCEPT ![c].valid = FALSE]
                      IN  IF r.stored
                          THEN Touch(rs, CellsOf(CellAddr(lladdr[c]), mop))
                          ELSE rs
           /\ steps' = [steps EXCEPT ![c] = @ + 1]

\* am<op>[_db].{w,d,wu,du}
trans_am(c, insn, a) ==
    /\ insn \in AMInsns
    /\ LET t == TRANS(insn)
           r == gen_am(va32[c], gpr[c], mem, a, t.func, t.mop)
       IN  /\ ~ am_overlap(a)
                  => Accessible(make_address_i(va32[c], gpr_src(gpr[c], a.rj), 0), t.mop)
           /\ gpr' = [gpr EXCEPT ![c] = r.g]
           /\ mem' = r.mem
           /\ UNCHANGED <<va32, lladdr, llval, yielded>>
           /\ last' = Record(c, insn, a, r, FALSE, r.ret)
           /\ resv' = IF r.ret THEN Touch(resv, CellsOf(CellAddr(r.addr), t.mop))
                      ELSE resv
           /\ steps' = [steps EXCEPT ![c] = @ + 1]

NoInsn ==
    [insn |-> "none", ctx |-> 0, rd |-> 0, rj |-> 0, rk |-> 0, imm |-> 0,
     ret |-> TRUE, ir |-> <<>>, addr |-> Zero, dest |-> Zero,
     matched |-> FALSE, stored |-> FALSE]

Args(rd, rj, rk, imm) == [rd |-> rd, rj |-> rj, rk |-> rk, imm |-> imm]

RECURSIVE SumTo(_, _)
SumTo(f, n) == IF n = 0 THEN 0 ELSE f[n] + SumTo(f, n - 1)

\* instructions executed so far by all contexts
Executed == SumTo(steps, NCtx)

\* the CPU state is allocated zeroed: no register, lladdr or llval holds
\* anything but 0 before the guest runs
\* no context is bound to a guest program
Free == pc = [c \in Ctx |-> "free"]

\* every context translates in 64-bit address mode
Mode64 == va32 = [c \in Ctx |-> FALSE]

ResetState ==
    /\ lladdr = [c \in Ctx |-> Zero]
    /\ llval = [c \in Ctx |-> Zero]
    /\ last = NoInsn
    /\ resv = [c \in Ctx |-> NoResv]
    /\ steps = [c \in Ctx |-> 0]
    /\ yielded = [c \in Ctx |-> 0]

(***************************************************************************)
(* Spec: NCtx contexts run LL, SC and atomic exchanges on two addresses of *)
(* the shared memory, in any interleaving of at most MaxSteps              *)
(* instructions.                                                           *)
(***************************************************************************)
Program ==
    { <<"ll_w", Args(2, 0, 0, 0)>>, <<"ll_d", Args(2, 0, 0, 0)>>,
      <<"sc_w", Args(2, 0, 0, 0)>>, <<"sc_d", Args(2, 0, 0, 0)>>,
      <<"sc_w", Args(2, 0, 0, 8)>>,
      <<"amswap_w", Args(0, 0, 2, 0)>>, <<"amswap_w", Args(0, 0, 3, 0)>>,
      <<"amswap_d", Args(3, 0, 2, 0)>>, <<"amadd_w", Args(2, 0, 2, 0)>> }

Init ==
    /\ gpr = [c \in Ctx |-> [r \in Regs |-> IF r = 2 THEN One ELSE Zero]]
    /\ \E m0 \in {W32(0), W32(1)} :
          mem = [n \in Cells |-> IF n = 0 THEN m0 ELSE W32(0)]
    /\ Mode64
    /\ Free
    /\ ResetState

\* the instructions a context may execute next
Fetch == IF Executed < MaxSteps THEN Program ELSE {}

Next ==
    \/ \E c \in Ctx, p \in Fetch : trans_ll(c, p[1], p[2]) /\ UNCHANGED pc
    \/ \E c \in Ctx, p \in Fetch : trans_sc(c, p[1], p[2]) /\ UNCHANGED pc
    \/ \E c \in Ctx, p \in Fetch : trans_am(c, p[1], p[2]) /\ UNCHANGED pc

Spec == Init /\ [][Next]_vars

(***************************************************************************)
(* SpecPair: one context executes up to two LL/SC instructions, with every *)
(* operand combination over registers 0..2, from register and memory       *)
(* contents drawn by the initial state.                                    *)
(***************************************************************************)
\* displacements (si14 << 2)
PairImms == {-8, 0, 4}
PairArgs == [rd : 0..2, rj : 0..2, rk : {0}, imm : PairImms]
\* base addresses: 0, 8, 2^64 - 4 (which wraps to 0 with displacement 4)
\* and 2^32 + 8 (which is 8 in 32-bit address mode)
PairBases == {Zero, W(8), W(-4), <<8, 0, 1, 0>>}
\* values to store: 1, and 2^32 + 1 (not the sign extension of its low half)
PairVals == {One, <<1, 0, 1, 0>>}

InitPair ==
    /\ \E b \in PairBases, v \in PairVals :
          gpr = [c \in Ctx |-> [r \in Regs |-> CASE c = 1 /\ r = 1 -> b
                                                [] c = 1 /\ r = 2 -> v
                                                [] OTHER -> Zero]]
    /\ \E m0 \in {W32(0), W32(1)}, m4 \in {W32(0), W32(1)} :
          mem = [n \in Cells |-> CASE n = 0 -> m0
                                   [] n = 4 -> m4
                                   [] OTHER -> W32(0)]
    /\ \E va \in BOOLEAN : va32 = [c \in Ctx |-> c = 1 /\ va]
    /\ Free
    /\ ResetState

FetchPair == IF steps[1] < 2 THEN PairArgs ELSE {}

NextPair ==
    \/ \E insn \in LLInsns, a \in FetchPair : trans_ll(1, insn, a) /\ UNCHANGED pc
    \/ \E insn \in SCInsns, a \in FetchPair : trans_sc(1, insn, a) /\ UNCHANGED pc

SpecPair == InitPair /\ [][NextPair]_vars

(***************************************************************************)
(* SpecAmo: one context translates and executes one AMO, any of the table, *)
(* with every register combination, from register and memory contents      *)
(* drawn by the initial state.                                             *)
(***************************************************************************)
AmoArgs == [rd : Regs, rj : Regs, rk : Regs, imm : {0}]
\* operands: 5, -1, 2^32 + 5, 2^31
AmoVals == {W(5), W(-1), <<5, 0, 1, 0>>, <<0, 32768, 0, 0>>}

InitAmo ==
    /\ \E v \in AmoVals :
          gpr = [c \in Ctx |-> [r \in Regs |-> CASE c = 1 /\ r = 1 -> W(8)
                                                [] c = 1 /\ r = 2 -> v
                                                [] c = 1 /\ r = 3 -> W(4)
                                                [] c = 1 /\ r = 4 -> W(3)
                                                [] OTHER -> Zero]]
    /\ \E m0 \in {W32(10), <<65535, 65535>>}, m4 \in {W32(0), <<0, 32768>>},
          m8 \in {W32(10), <<0, 32768>>} :
          mem = [n \in Cells |-> CASE n = 0 -> m0
                                   [] n = 4 -> m4
                                   [] n = 8 -> m8
                                   [] OTHER -> W32(0)]
    /\ Mode64
    /\ Free
    /\ ResetState

FetchAmo == IF steps[1] = 0 THEN AmoArgs ELSE {}

NextAmo ==
    \E insn \in AMInsns, a \in FetchAmo : trans_am(1, insn, a) /\ UNCHANGED pc

SpecAmo == InitAmo /\ [][NextAmo]_vars

(***************************************************************************)
(* SpecAdd: every context executes one fetch-add (amadd[_db].d rd=3, rj=0, *)
(* rk=2) on the double word at address 0, which holds 10; the operands are *)
(* drawn by the initial state.                                             *)
(***************************************************************************)
AddInsns == {"amadd_d", "amadd_db_d"}
AddVals == {W(5), W(7), W(-1), <<0, 0, 0, 32768>>}
AddArgs == Args(3, 0, 2, 0)

InitAdd ==
    /\ \E k \in [Ctx -> AddVals] :
          gpr = [c \in Ctx |-> [r \in Regs |-> IF r = 2 THEN k[c] ELSE Zero]]
    /\ mem = [n \in Cells |-> IF n = 0 THEN W32(10) ELSE W32(0)]
    /\ Mode64
    /\ Free
    /\ ResetState

NextAdd ==
    \E c \in Ctx, insn \in AddInsns :
        steps[c] = 0 /\ trans_am(c, insn, AddArgs) /\ UNCHANGED pc

SpecAdd == InitAdd /\ [][NextAdd]_vars

(***************************************************************************)
(* SpecLoop: every context runs the guest retry loop                       *)
(*   retry: ll.w r2, r0, 0 ; r3 := r2 + 1 ; sc.w r3, r0, 0 ;               *)
(*          if r3 = 0 goto retry                                           *)
(* on the word at address 0, until MaxWins of its store-conditionals have  *)
(* set r3 to 1.  Nothing else writes the word.                             *)
(***************************************************************************)
\* successful increments per context
MaxWins == 2

\* the value the word starts with
LoopStart == W(7)

LoopLl == Args(2, 0, 0, 0)
LoopSc == Args(3, 0, 0, 0)

InitLoop ==
    /\ gpr = [c \in Ctx |-> [r \in Regs |-> Zero]]
    /\ mem = [n \in Cells |-> IF n = 0 THEN Lo32(LoopStart) ELSE W32(0)]
    /\ Mode64
    /\ pc = [c \in Ctx |-> "ll"]
    /\ ResetState

\* ll.w r2, r0, 0
loop_ll(c) ==
    /\ pc[c] = "ll"
    /\ trans_ll(c, "ll_w", LoopLl)
    /\ pc' = [pc EXCEPT ![c] = "add"]

\* the guest's r3 := r2 + 1
loop_add(c) ==
    /\ pc[c] = "add"
    /\ gpr' = [gpr EXCEPT ![c][LoopSc.rd] = Add(gpr[c][LoopLl.rd], One)]
    /\ pc' = [pc EXCEPT ![c] = "sc"]
    /\ UNCHANGED <<va32, lladdr, llval, mem, last, resv, steps, yielded>>

\* sc.w r3, r0, 0 and the branch on its result
loop_sc(c) ==
    /\ pc[c] = "sc"
    /\ trans_sc(c, "sc_w", LoopSc)
    /\ pc' = [pc EXCEPT ![c] = IF yielded'[c] >= MaxWins THEN "done" ELSE "ll"]

NextLoop ==
    \/ \E c \in Ctx : loop_ll(c)
    \/ \E c \in Ctx : loop_add(c)
    \/ \E c \in Ctx : loop_sc(c)

SpecLoop == InitLoop /\ [][NextLoop]_vars

\* every context is a vCPU that keeps executing: its next loop step is
\* eventually taken
SpecLoopFair ==
    SpecLoop /\ \A c \in Ctx : WF_vars(loop_ll(c) \/ loop_add(c) \/ loop_sc(c))

(***************************************************************************)
(* SpecResv: one context reserves a location with a load-linked and then   *)
(* translates and executes one AMO, any of the table, with destination     *)
(* register 0 or 3, on the reserved location or on another one.            *)
(***************************************************************************)
ResvLl == Args(4, 1, 0, 0)
ResvArgs == [rd : {0, 3}, rj : {0, 1}, rk : Regs, imm : {0}]

InitResv ==
    /\ \E v \in AmoVals :
          gpr = [c \in Ctx |-> [r \in Regs |-> CASE c = 1 /\ r = 1 -> W(8)
                                                [] c = 1 /\ r = 2 -> v
                                                [] c = 1 /\ r = 3 -> W(4)
                                                [] c = 1 /\ r = 4 -> W(3)
                                                [] OTHER -> Zero]]
    /\ \E m8 \in {W32(10), <<0, 32768>>} :
          mem = [n \in Cells |-> CASE n = 0 -> W32(10)
                                   [] n = 8 -> m8
                                   [] OTHER -> W32(0)]
    /\ Mode64
    /\ Free
    /\ ResetState

NextResv ==
    \/ \E insn \in LLInsns :
          steps[1] = 0 /\ trans_ll(1, insn, ResvLl) /\ UNCHANGED pc
    \/ \E insn \in AMInsns, a \in ResvArgs :
          steps[1] = 1 /\ trans_am(1, insn, a) /\ UNCHANGED pc

SpecResv == InitResv /\ [][NextResv]_vars

(***************************************************************************)
(* Properties.  A step is identified by what it leaves in last; unprimed   *)
(* variables are the state the instruction started from.                   *)
(***************************************************************************)
\* context c executes a store-conditional in this step
ScStep(c) == last'.insn \in SCInsns /\ last'.ctx = c /\ steps'[c] = steps[c] + 1

\* context c executes a load-linked in this step
LlStep(c) == last'.insn \in LLInsns /\ last'.ctx = c /\ steps'[c] = steps[c] + 1

\* context c translates an AMO in this step
AmStep(c) == last'.insn \in AMInsns /\ last'.ctx = c /\ steps'[c] = steps[c] + 1

\* the access width an instruction is named for
Wide(insn) == insn \in {"ll_d", "sc_d"}
MopOf(insn) == IF Wide(insn) THEN MO_TEUQ ELSE MO_TESL

\* base + displacement
Resolve(base, imm) == Add(base, W(imm))

\* C1: a store-conditional whose address (base + displacement) differs from
\* the context's reservation address fails: it writes 0 to the destination
\* register and leaves memory as it was, whatever memory and llval hold.
C1_ScAddressMismatchFails ==
    [][\A c \in Ctx :
          (ScStep(c) /\ Resolve(gpr_src(gpr[c], last'.rj), last'.imm) # lladdr[c])
              => /\ mem' = mem
                 /\ ~ last'.stored
                 /\ last'.dest = Zero
                 /\ gpr'[c][last'.rd] = Zero]_vars

\* C1 witness: after a load-linked, a store-conditional to another address
\* failed although that address holds the reserved value.
C1_Witness ==
    /\ last.insn \in SCInsns
    /\ ~ last.matched
    /\ last.rd # 0
    /\ resv[last.ctx].cells # {}
    /\ Accessible(last.addr, MopOf(last.insn))
    /\ Load(mem, last.addr, MopOf(last.insn)) = llval[last.ctx]
    /\ last.addr # lladdr[last.ctx]

\* C2: when the store-conditional's address matches the reservation, the
\* store is performed iff memory at that address holds the reserved value in
\* the state the step starts from (compare and write are one step); rd gets
\* 1 when the store was performed and 0 otherwise, and on 0 memory is as it
\* was.
C2_ScCommitsIffValueHeld ==
    [][\A c \in Ctx :
          (ScStep(c) /\ Resolve(gpr_src(gpr[c], last'.rj), last'.imm) = lladdr[c])
              => LET mop == MopOf(last'.insn)
                     held == Load(mem, lladdr[c], mop) = llval[c]
                 IN  /\ last'.stored = held
                     /\ mem' = IF held
                               THEN Store(mem, lladdr[c], mop, gpr_src(gpr[c], last'.rd))
                               ELSE mem
                     /\ last'.dest = IF held THEN One ELSE Zero
                     /\ last'.rd # 0 => gpr'[c][last'.rd] = last'.dest]_vars

\* C2 witness: a context executed a load-linked and then a store-conditional
\* to the same address; in between another context wrote the reserved cells;
\* the store-conditional passed the address match, wrote nothing and gave 0.
C2_Witness ==
    /\ last.insn \in SCInsns
    /\ last.matched /\ ~ last.stored
    /\ last.rd # 0 /\ gpr[last.ctx][last.rd] = Zero
    /\ steps[last.ctx] = 2
    /\ Executed = 3
    /\ resv[last.ctx].cells # {}
    /\ resv[last.ctx].dirty

\* the store-conditional of this step succeeds at the address addr
ScSucceeds(c, addr) ==
    /\ last'.dest = One
    /\ last'.rd # 0 => gpr'[c][last'.rd] = One
    /\ mem' = Store(mem, addr, MopOf(last'.insn), gpr_src(gpr[c], last'.rd))

\* context c executed a load-linked in the previous step and executes a
\* store-conditional to the same address in this one
LlThenSc(c) ==
    /\ last.insn \in LLInsns /\ last.ctx = c
    /\ ScStep(c)
    /\ Resolve(gpr_src(gpr[c], last'.rj), last'.imm) = last.addr

\* C3 as stated: a store-conditional executed immediately after a
\* load-linked to the same address by the same context succeeds: rd becomes
\* 1 and memory at the address holds the value rd held before.
C3_ScAfterLlSucceeds ==
    [][\A c \in Ctx : LlThenSc(c) => ScSucceeds(c, last.addr)]_vars

\* C3 amended: the same, for a store-conditional of the load-linked's width
\* (ll.w then sc.w, ll.d then sc.d).
C3_ScAfterLlSameWidthSucceeds ==
    [][\A c \in Ctx :
          (LlThenSc(c) /\ Wide(last.insn) = Wide(last'.insn))
              => ScSucceeds(c, last.addr)]_vars

\* C3 witness: a load-linked with a displacement, then a store-conditional
\* of the same width to the same address, which stored and gave 1.
C3_Witness ==
    /\ last.insn \in SCInsns
    /\ last.stored
    /\ last.imm # 0
    /\ last.rd # 0 /\ gpr[last.ctx][last.rd] = One
    /\ steps[last.ctx] = 2
    /\ resv[last.ctx].cells = CellsOf(CellAddr(last.addr), MopOf(last.insn))

\* C4: the reservation is single-use: once a context has executed a
\* store-conditional, every further store-conditional before its next
\* load-linked fails (rd 0, memory as it was).
C4_ReservationSingleUse ==
    [][\A c \in Ctx :
          (ScStep(c) /\ resv[c].cells # {} /\ ~ resv[c].valid)
              => /\ mem' = mem
                 /\ ~ last'.stored
                 /\ last'.dest = Zero]_vars

\* C5: a store-conditional stores only if no context wrote the reserved
\* cells since the executing context's last load-linked.
C5_ScCommitsOnlyWithoutInterveningWrite ==
    [][\A c \in Ctx :
          (ScStep(c) /\ resv[c].valid /\ last'.stored) => ~ resv[c].dirty]_vars

\* C9: an AMO rejected for register overlap returns false and emits no IR;
\* registers, memory, lladdr, llval and the reservation history are as
\* before.
C9_RejectedAmoChangesNothing ==
    [][\A c \in Ctx :
          (AmStep(c) /\ ~ last'.ret)
              => /\ last'.ir = <<>>
                 /\ gpr' = gpr
                 /\ mem' = mem
                 /\ lladdr' = lladdr /\ llval' = llval
                 /\ resv' = resv]_vars

\* C9 witness: a context holding a reservation had an AMO rejected, and
\* further instructions can still be executed.
C9_Witness ==
    /\ last.insn \in AMInsns
    /\ ~ last.ret
    /\ resv[last.ctx].valid
    /\ lladdr[last.ctx] = Zero /\ llval[last.ctx] = One
    /\ Executed < MaxSteps
    /\ ENABLED Next

\* C10: a store-conditional of a context that has executed no load-linked
\* fails (rd 0, memory as it was), at every address.
C10_ScWithoutLlFails ==
    [][\A c \in Ctx :
          (ScStep(c) /\ resv[c].cells = {})
              => /\ mem' = mem
                 /\ ~ last'.stored
                 /\ last'.dest = Zero]_vars

\* the fetch-and-modify kinds by mnemonic
AmoKinds ==
    [exchange |-> {"amswap_w", "amswap_d", "amswap_db_w", "amswap_db_d"},
     add |-> {"amadd_w", "amadd_d", "amadd_db_w", "amadd_db_d"},
     and |-> {"amand_w", "amand_d", "amand_db_w", "amand_db_d"},
     or |-> {"amor_w", "amor_d", "amor_db_w", "amor_db_d"},
     xor |-> {"amxor_w", "amxor_d", "amxor_db_w", "amxor_db_d"},
     smax |-> {"ammax_w", "ammax_d", "ammax_db_w", "ammax_db_d"},
     smin |-> {"ammin_w", "ammin_d", "ammin_db_w", "ammin_db_d"},
     umax |-> {"ammax_wu", "ammax_du", "ammax_db_wu", "ammax_db_du"},
     umin |-> {"ammin_wu", "ammin_du", "ammin_db_wu", "ammin_db_du"}]

AmoKind(insn) == CHOOSE k \in DOMAIN AmoKinds : insn \in AmoKinds[k]

\* the 32-bit fetch-and-modify mnemonics
Amo32 ==
    {"amswap_w", "amadd_w", "amand_w", "amor_w", "amxor_w", "ammax_w", "ammin_w",
     "ammax_wu", "ammin_wu", "amswap_db_w", "amadd_db_w", "amand_db_w",
     "amor_db_w", "amxor_db_w", "ammax_db_w", "ammin_db_w", "ammax_db_wu",
     "ammin_db_wu"}

\* f(pre, operand) of a kind, on words of either width
AmoF(kind, pre, opd) ==
    CASE kind = "exchange" -> opd
      [] kind = "add" -> Add(pre, opd)
      [] kind = "and" -> And(pre, opd)
      [] kind = "or" -> Or(pre, opd)
      [] kind = "xor" -> Xor(pre, opd)
      [] kind = "smax" -> IF SLess(pre, opd) THEN opd ELSE pre
      [] kind = "smin" -> IF SLess(opd, pre) THEN opd ELSE pre
      [] kind = "umax" -> IF ULess(pre, opd) THEN opd ELSE pre
      [] kind = "umin" -> IF ULess(opd, pre) THEN opd ELSE pre

\* C6: an accepted AMO of kind f leaves f(pre, operand) in memory at the
\* address held by rj, computed at the instruction's width from the value
\* pre that was there and the value of rk, and sets rd to pre (a 32-bit pre
\* sign-extended to the register); the rest of memory is unchanged.
C6_AmoFetchAndModify ==
    [][\A c \in Ctx :
          (AmStep(c) /\ last'.ret)
              => LET insn == last'.insn
                     n == CellAddr(gpr_src(gpr[c], last'.rj))
                     opd == gpr_src(gpr[c], last'.rk)
                 IN  IF insn \in Amo32
                     THEN LET pre == mem[n]
                              new == AmoF(AmoKind(insn), pre, Lo32(opd))
                          IN  /\ mem' = [mem EXCEPT ![n] = new]
                              /\ last'.dest = SignExt32(pre)
                              /\ last'.rd # 0 => gpr'[c][last'.rd] = SignExt32(pre)
                     ELSE LET pre == mem[n] \o mem[n + 4]
                              new == AmoF(AmoKind(insn), pre, opd)
                          IN  /\ mem' = [mem EXCEPT ![n] = Lo32(new), ![n + 4] = Hi32(new)]
                              /\ last'.dest = pre
                              /\ last'.rd # 0 => gpr'[c][last'.rd] = pre]_vars

\* C6 witness: a 64-bit fetch-add with operand 5 on a location holding 10
\* returned 10 and left 15.
C6_Witness ==
    /\ last.insn = "amadd_d"
    /\ last.ret
    /\ last.rd # 0 /\ gpr[last.ctx][last.rd] = W(10)
    /\ gpr[last.ctx][last.rk] = W(5)
    /\ Load(mem, last.addr, MO_TEUQ) = W(15)

\* the value the shared location of the fetch-add contexts starts with
AddStart == W(10)

\* the contexts that have executed their fetch-add
AddDone == {c \in Ctx : steps[c] = 1}

\* the orders in which the contexts of S can have executed
Orders(S) ==
    {o \in [1..Cardinality(S) -> S] : \A i, j \in DOMAIN o : o[i] = o[j] => i = j}

\* AddStart plus the operands of the first i contexts of the order o
RECURSIVE PrefixSum(_, _)
PrefixSum(o, i) ==
    IF i = 0 THEN AddStart ELSE Add(PrefixSum(o, i - 1), gpr[o[i]][AddArgs.rk])

\* C7: fetch-adds of several contexts on one location lose no update: the
\* location holds its initial value plus the operands of all the fetch-adds
\* executed, and the values returned are the successive partial sums of some
\* serial order of them.
C7_AmoNoLostUpdate ==
    \E o \in Orders(AddDone) :
        /\ Load(mem, Zero, MO_TEUQ) = PrefixSum(o, Cardinality(AddDone))
        /\ \A i \in DOMAIN o : gpr[o[i]][AddArgs.rd] = PrefixSum(o, i - 1)

\* C7 witness: every context has executed its fetch-add, with operands 5
\* and -1 among them; the one adding -1 came after the 5 and the location
\* ends with 14.
C7_Witness ==
    /\ AddDone = Ctx
    /\ Load(mem, Zero, MO_TEUQ) = W(14)
    /\ \E c, d \in Ctx :
          /\ gpr[c][AddArgs.rk] = W(5) /\ gpr[c][AddArgs.rd] = W(10)
          /\ gpr[d][AddArgs.rk] = W(-1) /\ gpr[d][AddArgs.rd] = W(15)

\* C8: an AMO is rejected iff rd is not register 0 and rd equals rj or rk.
C8_AmoRejectedIffOverlap ==
    last.insn \in AMInsns
        => (~ last.ret <=> (last.rd # 0 /\ (last.rd = last.rj \/ last.rd = last.rk)))

\* C8 witness: the AMO with rd = 3, rj = 3, rk = 5 was rejected.
C8_Witness ==
    /\ last.insn \in AMInsns
    /\ ~ last.ret
    /\ last.rd = 3 /\ last.rj = 3 /\ last.rk = 5

\* C11: in a store-conditional rd is both the destination and the register
\* holding the value to store, and may equal rj: every store-conditional
\* that stores writes the value rd held before the instruction, at the
\* address computed from the value rj held before the instruction.
C11_ScStoresPreInstructionValue ==
    [][\A c \in Ctx :
          (ScStep(c) /\ last'.stored)
              => LET addr == Resolve(gpr_src(gpr[c], last'.rj), last'.imm)
                 IN  /\ last'.addr = addr
                     /\ mem' = Store(mem, addr, MopOf(last'.insn),
                                     gpr_src(gpr[c], last'.rd))]_vars

\* C11 witness: after a load-linked, a store-conditional with rd = rj
\* stored a value that is neither 0 nor 1 and then set rd to 1.
C11_Witness ==
    /\ last.insn \in SCInsns
    /\ last.stored
    /\ last.rd # 0 /\ last.rd = last.rj
    /\ gpr[last.ctx][last.rd] = One
    /\ Load(mem, last.addr, MopOf(last.insn)) \notin {Zero, One}
    /\ steps[last.ctx] = 2
    /\ resv[last.ctx].cells = CellsOf(CellAddr(last.addr), MopOf(last.insn))

\* a 32-bit word as a signed number
Signed32(w) == (IF w[2] >= 32768 THEN w[2] - 65536 ELSE w[2]) * 65536 + w[1]

\* a < b for 32-bit words as unsigned numbers
ULess32(a, b) == a[2] < b[2] \/ (a[2] = b[2] /\ a[1] < b[1])

\* a + b modulo 2^32
Add32(a, b) ==
    LET lo == a[1] + b[1]
    IN  <<lo % 65536, (a[2] + b[2] + lo \div 65536) % 65536>>

\* the word a 32-bit AMO leaves in memory, from the 32-bit word there and
\* the low 32 bits of the operand
Amo32F(insn, pre, opd) ==
    CASE insn \in AmoKinds.exchange -> opd
      [] insn \in AmoKinds.add -> Add32(pre, opd)
      [] insn \in AmoKinds.and -> <<AndLimb(pre[1], opd[1]), AndLimb(pre[2], opd[2])>>
      [] insn \in AmoKinds.or -> Or(pre, opd)
      [] insn \in AmoKinds.xor -> <<XorLimb(pre[1], opd[1]), XorLimb(pre[2], opd[2])>>
      [] insn \in AmoKinds.smax -> IF Signed32(pre) < Signed32(opd) THEN opd ELSE pre
      [] insn \in AmoKinds.smin -> IF Signed32(opd) < Signed32(pre) THEN opd ELSE pre
      [] insn \in AmoKinds.umax -> IF ULess32(pre, opd) THEN opd ELSE pre
      [] insn \in AmoKinds.umin -> IF ULess32(opd, pre) THEN opd ELSE pre

\* C12: a 32-bit AMO reads, computes and writes at 32 bits: the new memory
\* word is a function of the 32-bit word at the address and the low 32 bits
\* of rk (signed min/max on signed 32-bit values, unsigned min/max on
\* unsigned ones, add modulo 2^32), the low 32 bits returned are the old
\* word, and every other memory word, the adjacent one included, is
\* unchanged.
C12_Amo32UsesWidth32 ==
    [][\A c \in Ctx :
          (AmStep(c) /\ last'.ret /\ last'.insn \in Amo32)
              => LET n == CellAddr(gpr_src(gpr[c], last'.rj))
                     rk == gpr_src(gpr[c], last'.rk)
                     pre == mem[n]
                 IN  /\ mem'[n] = Amo32F(last'.insn, pre, <<rk[1], rk[2]>>)
                     /\ \A k \in Cells \ {n} : mem'[k] = mem[k]
                     /\ <<last'.dest[1], last'.dest[2]>> = pre
                     /\ last'.rd # 0
                            => <<gpr'[c][last'.rd][1], gpr'[c][last'.rd][2]>> = pre]_vars

\* C12 witness: amadd.w with operand 0x1_0000_0005 on the word 0xFFFFFFFF
\* left 4, returned the old word, and the adjacent word 0x80000000 is
\* still there.
C12_Witness ==
    /\ last.insn = "amadd_w"
    /\ last.ret
    /\ last.rd # 0 /\ gpr[last.ctx][last.rd] = W(-1)
    /\ gpr[last.ctx][last.rk] = <<5, 0, 1, 0>>
    /\ last.addr = Zero
    /\ mem[0] = W32(4)
    /\ mem[4] = <<0, 32768>>

\* C14: the reservation is private to its context: lladdr and llval of a
\* context change only in a step in which that context executes a
\* load-linked; no load-linked, store-conditional or AMO of another context
\* changes them, whatever address it accesses.
C14_ReservationPrivate ==
    [][\A c \in Ctx :
          (lladdr'[c] # lladdr[c] \/ llval'[c] # llval[c]) => LlStep(c)]_vars

\* C14 witness: a context holds the reservation (0, 1) taken by its
\* load-linked; another context has just written another value to the
\* reserved address, and the reservation is as it was.
C14_Witness ==
    \E c \in Ctx :
        /\ resv[c].valid /\ resv[c].dirty
        /\ lladdr[c] = Zero /\ llval[c] = One
        /\ last.ctx \in Ctx \ {c}
        /\ last.insn \in AMInsns /\ last.ret
        /\ last.addr = lladdr[c]
        /\ Load(mem, lladdr[c], MO_TESL) # llval[c]

C16_LlScAlwaysTranslate ==
    [][\A c \in Ctx :
          /\ LlStep(c) \/ ScStep(c) => last'.ret /\ last'.ir # <<>>
          /\ ScStep(c) /\ ~ last'.stored
                => /\ last'.dest = Zero
                   /\ last'.rd # 0 => gpr'[c][last'.rd] = Zero
                   /\ \A r \in Regs \ {last'.rd} : gpr'[c][r] = gpr[c][r]
                   /\ mem' = mem
                   /\ lladdr' = lladdr /\ llval' = llval]_vars

\* C16 witness: a store-conditional after a load-linked of the other width
\* matched the reserved address, failed the compare, was translated and
\* left 0 in rd.
C16_Witness ==
    /\ last.insn \in SCInsns
    /\ last.ret
    /\ last.matched /\ ~ last.stored
    /\ last.rd # 0 /\ gpr[last.ctx][last.rd] = Zero
    /\ steps[last.ctx] = 2
    /\ resv[last.ctx].cells # {}

\* the address a load-linked of context c resolves from base and
\* displacement: their sum modulo 2^64, cut to 32 bits in 32-bit address mode
LlAddress(c, base, imm) ==
    LET sum == Resolve(base, imm)
    IN  IF va32[c] THEN <<sum[1], sum[2], 0, 0>> ELSE sum

\* C17: every load-linked replaces its context's reservation: afterwards
\* lladdr is the address resolved from the value rj held before and the
\* displacement, llval is the value memory holds at that address (at the
\* width of the load), rd holds the same value, also when rd = rj, and
\* memory is unchanged; nothing of the step depends on the reservation held
\* before.
C17_LlReplacesReservation ==
    [][\A c \in Ctx :
          LlStep(c)
              => LET addr == LlAddress(c, gpr_src(gpr[c], last'.rj), last'.imm)
                     n == CellAddr(addr)
                     v == IF Wide(last'.insn) THEN mem[n] \o mem[n + 4]
                          ELSE SignExt32(mem[n])
                 IN  /\ lladdr'[c] = addr
                     /\ llval'[c] = v
                     /\ last'.dest = v
                     /\ last'.rd # 0 => gpr'[c][last'.rd] = v
                     /\ mem' = mem]_vars

\* C17 witness: a context that had reserved address 0 with the 64-bit value
\* 2^32 (still in r1) executed ll.w at address 4 and now holds the
\* reservation (4, 1).
C17_Witness ==
    /\ last.insn = "ll_w"
    /\ steps[last.ctx] = 2
    /\ gpr[last.ctx][1] = <<0, 0, 1, 0>>
    /\ last.rd = 2 /\ gpr[last.ctx][2] = One
    /\ lladdr[last.ctx] = W(4)
    /\ llval[last.ctx] = One
    /\ mem[0] = W32(0)

Yielded == SumTo(yielded, NCtx)

\* C19: when every context runs the retry loop and nothing else writes the
\* word, no increment is lost: in every reachable state the word holds its
\* initial value plus the number of store-conditionals that have yielded 1.
C19_RetryLoopLosesNoIncrement ==
    Load(mem, Zero, MO_TESL) = Add(LoopStart, W(Yielded))

\* C19 witness: every context has finished its loop, and some
\* store-conditional failed on the way and was retried.
C19_Witness ==
    /\ \A c \in Ctx : pc[c] = "done"
    /\ Yielded = NCtx * MaxWins
    /\ Executed > 2 * Yielded
    /\ Load(mem, Zero, MO_TESL) = Add(LoopStart, W(NCtx * MaxWins))

\* C20: the retry loop is lock-free: a store-conditional of the loop yields
\* 0 only if another context's write changed the word since the executing
\* context's load-linked, and, every context's steps being weakly fair, as
\* long as increments remain to be done some store-conditional eventually
\* yields 1: the count of store-conditionals that yielded 1 reaches the
\* NCtx * MaxWins the loops ask for.
C20_RetryLoopLockFree ==
    /\ [][\A c \in Ctx :
             (ScStep(c) /\ last'.dest = Zero)
                 => /\ resv[c].dirty
                    /\ Load(mem, lladdr[c], MO_TESL) # llval[c]]_vars
    /\ <>(Yielded = NCtx * MaxWins)

\* C20 witness: a context whose first store-conditional yielded 0 retried
\* and its second one has just yielded 1.
C20_Witness ==
    /\ last.insn \in SCInsns
    /\ last.stored /\ last.dest = One
    /\ yielded[last.ctx] = 1
    /\ steps[last.ctx] = 4

\* the relaxed mnemonic of each ordered (_db) AMO
DbPlain ==
    [amswap_db_w |-> "amswap_w", amswap_db_d |-> "amswap_d",
     amadd_db_w |-> "amadd_w", amadd_db_d |-> "amadd_d",
     amand_db_w |-> "amand_w", amand_db_d |-> "amand_d",
     amor_db_w |-> "amor_w", amor_db_d |-> "amor_d",
     amxor_db_w |-> "amxor_w", amxor_db_d |-> "amxor_d",
     ammax_db_w |-> "ammax_w", ammax_db_d |-> "ammax_d",
     ammin_db_w |-> "ammin_w", ammin_db_d |-> "ammin_d",
     ammax_db_wu |-> "ammax_wu", ammax_db_du |-> "ammax_du",
     ammin_db_wu |-> "ammin_wu", ammin_db_du |-> "ammin_du"]

\* the other variant of an AMO: relaxed for an ordered one and back
DbTwin(insn) ==
    IF insn \in DOMAIN DbPlain
    THEN DbPlain[insn]
    ELSE CHOOSE d \in DOMAIN DbPlain : DbPlain[d] = insn

\* C21: the ordered (_db) and the relaxed variant of an AMO have the same
\* table entry (translator, emitter function, MemOp), and whatever one of
\* them does to a state the other does too: translating the other variant
\* from the state before the step yields the same translation result, the
\* same IR, the same registers and the same memory as the step did, and
\* the step leaves lladdr and llval alone.
C21_DbVariantEqualsRelaxed ==
    [][\A c \in Ctx :
          AmStep(c)
              => LET twin == DbTwin(last'.insn)
                     t == TRANS(twin)
                     a == Args(last'.rd, last'.rj, last'.rk, last'.imm)
                     r == gen_am(va32[c], gpr[c], mem, a, t.func, t.mop)
                 IN  /\ twin \in AMInsns /\ twin # last'.insn
                     /\ TRANS(twin) = TRANS(last'.insn)
                     /\ last'.ret = r.ret
                     /\ last'.ir = r.ir
                     /\ gpr' = [gpr EXCEPT ![c] = r.g]
                     /\ mem' = r.mem
                     /\ lladdr' = lladdr /\ llval' = llval]_vars

\* C21 witness: the ordered 64-bit fetch-add with operand 5 on a location
\* holding 10 returned 10 and left 15, as the relaxed one does.
C21_Witness ==
    /\ last.insn = "amadd_db_d"
    /\ last.ret
    /\ last.rd # 0 /\ gpr[last.ctx][last.rd] = W(10)
    /\ gpr[last.ctx][last.rk] = W(5)
    /\ Load(mem, last.addr, MO_TEUQ) = W(15)

\* C22: an accepted AMO leaves lladdr and llval of its context, and of
\* every other, unchanged; one whose destination is register 0 still leaves
\* f(pre, operand) in memory at the address held by rj, at the
\* instruction's width and with the rest of memory unchanged, and changes
\* no register: register 0 still reads zero and the old value is dropped.
C22_AmoToR0StillWrites ==
    [][\A c \in Ctx :
          (AmStep(c) /\ last'.ret)
              => /\ lladdr' = lladdr /\ llval' = llval
                 /\ last'.rd = 0
                        => LET insn == last'.insn
                               n == CellAddr(gpr_src(gpr[c], last'.rj))
                               opd == gpr_src(gpr[c], last'.rk)
                           IN  /\ gpr' = gpr
                               /\ gpr'[c][0] = Zero
                               /\ IF insn \in Amo32
                                  THEN mem' = [mem EXCEPT
                                                 ![n] = Amo32F(insn, mem[n], Lo32(opd))]
                                  ELSE LET new == AmoF(AmoKind(insn),
                                                       mem[n] \o mem[n + 4], opd)
                                       IN  mem' = [mem EXCEPT ![n] = Lo32(new),
                                                              ![n + 4] = Hi32(new)]]_vars

\* C22 witness: a context that reserved the location at 8 holding 10 has
\* executed amadd.d with destination register 0 and operand 5 on it: the
\* location holds 15, register 0 reads zero, and lladdr and llval are
\* still 8 and 10.
C22_Witness ==
    /\ last.insn = "amadd_d"
    /\ last.ret
    /\ last.rd = 0 /\ last.rj = 1 /\ last.rk = 2
    /\ gpr[last.ctx][0] = Zero
    /\ gpr[last.ctx][2] = W(5)
    /\ Load(mem, W(8), MO_TEUQ) = W(15)
    /\ resv[last.ctx].valid
    /\ lladdr[last.ctx] = W(8) /\ llval[last.ctx] = W(10)

=============================================================================
